---- MODULE Spec2Model ----
(***************************************************************************)
(* MonadMesh: the dependency-aware task orchestrator of                    *)
(* Python/orchestrator.py (class MonadOrchestrator).                       *)
(*                                                                         *)
(* The state is the three MongoDB collections the orchestrator writes      *)
(* (functions, tasks, results), its asyncio task queue and the position of *)
(* the single background coroutine _process_tasks.  Every write to a       *)
(* collection is a step of its own, because the collections are read by    *)
(* other clients of the database; the coroutine methods of the             *)
(* orchestrator (submit_function) run only where _process_tasks is         *)
(* suspended on an await that really yields: queue.get(), asyncio.sleep(1) *)
(* and run_in_executor.                                                    *)
(***************************************************************************)
EXTENDS Integers, Sequences, FiniteSets, TLC

\* Number of submit_function calls explored.
MaxTasks == 2
\* Largest number of entries of a submitted "dependencies" list.
MaxDeps == 2
\* Outputs the execution backend may return are 1..MaxOutput.
MaxOutput == 2
\* Number of times a task identifier is handed to the scheduler again
\* (specification DupSpec only).
MaxDup == 1
\* Node identifiers given to register_node are 1..MaxNodes.
MaxNodes == 2
\* Capability tags are 1..MaxCaps.
MaxCaps == 1
\* The clock readings explored are 0..MaxTime.
MaxTime == 1
\* Number of POST /functions requests explored (specification HttpSpec).
MaxRequests == 4

VARIABLES
    functions,   \* self.functions: the set of stored function identifiers
    tasks,       \* self.tasks: sequence of task records, index = task identifier
    results,     \* self.results: sequence of result records, index = result identifier
    task_queue,  \* self.task_queue (asyncio.Queue, FIFO, unbounded)
    pc,          \* where _process_tasks/_execute_task stands
    cur,         \* task_id held by _process_tasks (0 when it holds none)
    inputs,      \* the dict given to _execute_in_threadpool for the running task
    exc,         \* str(e) of the exception _execute_task is raising
    dups,        \* identifiers handed to the scheduler a second time (DupSpec)
    nodes,       \* self.nodes: sequence of node documents, in insertion order
    now,         \* datetime.utcnow()
    found        \* what the last find_available_node returned

vars == <<functions, tasks, results, task_queue, pc, cur, inputs, exc, dups,
          nodes, now, found>>

\* Task identifiers the store can allocate, in allocation order.
Ids == 1..MaxTasks
\* A well-formed identifier that the store never allocates.
Ghost == 0
\* Identifiers a caller may write into a dependency list.
DepIds == Ids \cup {Ghost}
DepChoices == {D \in SUBSET DepIds : Cardinality(D) <= MaxDeps}
Outputs == 1..MaxOutput

NoResult == 0
\* Node identifiers, capability lists and the None of find_available_node.
NodeIds == 1..MaxNodes
CapChoices == SUBSET (1..MaxCaps)
None == 0
NoError == "none"
NoInputs == [d \in {} |-> 0]

\* The set of identifiers of the tasks in the store.
TaskIds == 1..Len(tasks)
ResultIds == 1..Len(results)

Range(s) == {s[i] : i \in DOMAIN s}

\* Faulty variant: the task document starts in a status of its own.
NewTaskQueued(fid, D) ==
    [function_id |-> fid, status |-> "queued", dependencies |-> D,
     result_id |-> 0, error |-> "none"]

\* The task document inserted by submit_function.
NewTask(fid, D) ==
    [function_id |-> fid, status |-> "pending", dependencies |-> D,
     result_id |-> NoResult, error |-> NoError]

\* update_one({"_id": t}, {"$set": {"status": "executing", ...}})
SetExecuting(tk, t) ==
    IF t \in DOMAIN tk THEN [tk EXCEPT ![t].status = "executing"] ELSE tk

\* Faulty variant: the status is set and the error is left out.
SetFailedNoError(tk, t, e) ==
    IF t \in DOMAIN tk THEN [tk EXCEPT ![t].status = "failed"] ELSE tk

\* update_one({"_id": t}, {"$set": {"status": "failed", "error": e}})
SetFailed(tk, t, e) ==
    IF t \in DOMAIN tk
    THEN [tk EXCEPT ![t].status = "failed", ![t].error = e]
    ELSE tk

\* update_one({"_id": t}, {"$set": {"status": "completed", "result_id": r}})
SetCompleted(tk, t, r) ==
    IF t \in DOMAIN tk
    THEN [tk EXCEPT ![t].status = "completed", ![t].result_id = r]
    ELSE tk

\* _check_dependencies: count the documents whose _id is in the list and
\* whose status is not "completed"; ready when the count is 0.  An
\* identifier that matches no document adds nothing to the count.
PendingCount(D) ==
    Cardinality({d \in D \cap TaskIds : tasks[d].status # "completed"})

\* Faulty variant: an empty dependency list is reported as not ready.
CheckDependenciesEmptyNotReady(D) ==
    IF D = {} THEN FALSE ELSE PendingCount(D) = 0

CheckDependencies(D) ==
    IF D = {} THEN TRUE ELSE PendingCount(D) = 0

\* _get_dependency_values: for every dependency, the task document, its
\* result_id, the result document, its output.
DependencyError(D) ==
    IF \E d \in D : d \notin TaskIds \/ tasks[d].result_id = NoResult
    THEN "DependencyNotCompleted"
    ELSE IF \E d \in D : tasks[d].result_id \notin ResultIds
    THEN "ResultNotFound"
    ELSE NoError

\* Faulty variant: the dict carries the result identifier instead of the output.
GetDependencyValuesResultId(D) ==
    [d \in D |-> tasks[d].result_id]

GetDependencyValues(D) ==
    [d \in D |-> results[tasks[d].result_id].output]

\* Faulty variant: the identifier is put at the front of the queue.
QueuePutFront(q, t) == <<t>> \o q

\* task_queue.put(t)
QueuePut(q, t) == Append(q, t)

\* Faulty variant: the head is read and left in the queue.
QueuePeek(q) == q

\* The queue after task_queue.get() returned its head.
QueueGet(q) == Tail(q)

TypeOK ==
    /\ functions \subseteq Ids
    /\ Len(tasks) <= MaxTasks
    /\ \A t \in TaskIds :
        /\ tasks[t].status \in {"pending", "executing", "completed", "failed"}
        /\ tasks[t].dependencies \in DepChoices
    /\ pc \in {"get", "sleep", "marked", "exec", "stored", "raised"}
    /\ cur \in TaskIds \cup {0}
    /\ now \in 0..MaxTime
    /\ found \in NodeIds \cup {None}
    /\ \A i \in DOMAIN nodes :
        /\ nodes[i].node_id \in NodeIds
        /\ nodes[i].capabilities \in CapChoices
        /\ nodes[i].last_seen \in 0..now

Init ==
    /\ functions = {}
    /\ tasks = <<>>
    /\ results = <<>>
    /\ task_queue = <<>>
    /\ pc = "get"
    /\ cur = 0
    /\ inputs = NoInputs
    /\ exc = NoError
    /\ dups = 0
    /\ nodes = <<>>
    /\ now = 0
    /\ found = None

\* Places where _process_tasks is suspended and other coroutines run.
Suspended == pc \in {"get", "sleep", "exec"}

\* submit_function(function_data) with function_data["dependencies"] = D.
SubmitFunction(D) ==
    /\ Suspended
    /\ Len(tasks) < MaxTasks
    /\ LET id == Len(tasks) + 1 IN
        /\ functions' = functions \cup {id}
        /\ tasks' = Append(tasks, NewTask(id, D))
        /\ task_queue' = QueuePut(task_queue, id)
    /\ UNCHANGED <<results, pc, cur, inputs, exc, dups, nodes, now, found>>

\* Faulty variant: the task is marked executing before its dependencies are
\* looked at.
PopNotReadyMarked ==
    /\ pc = "get"
    /\ task_queue # <<>>
    /\ LET t == Head(task_queue) IN
        /\ t \in TaskIds
        /\ ~CheckDependencies(tasks[t].dependencies)
        /\ cur' = t
        /\ tasks' = SetExecuting(tasks, t)
    /\ task_queue' = QueueGet(task_queue)
    /\ pc' = "sleep"
    /\ UNCHANGED <<functions, results, inputs, exc, dups, nodes, now, found>>

\* _process_tasks takes the head of the queue and _execute_task finds its
\* dependencies not ready: it goes to sleep for a second, holding task_id.
\* (Only submit_function and _execute_task put identifiers on the queue, both
\* of stored tasks, and no task is ever deleted: tasks.find_one finds it.)
PopNotReady ==
    /\ pc = "get"
    /\ task_queue # <<>>
    /\ LET t == Head(task_queue) IN
        /\ t \in TaskIds
        /\ ~CheckDependencies(tasks[t].dependencies)
        /\ cur' = t
    /\ task_queue' = QueueGet(task_queue)
    /\ pc' = "sleep"
    /\ UNCHANGED <<functions, tasks, results, inputs, exc, dups, nodes, now, found>>

\* Faulty variant: the requeue notes the wait in the task document.
RequeueRecordsWait ==
    /\ pc = "sleep"
    /\ task_queue' = Append(task_queue, cur)
    /\ tasks' = [tasks EXCEPT ![cur].error = "DependenciesNotReady"]
    /\ pc' = "get"
    /\ cur' = 0
    /\ UNCHANGED <<functions, results, inputs, exc, dups, nodes, now, found>>

\* After the sleep _execute_task puts task_id back and returns.
Requeue ==
    /\ pc = "sleep"
    /\ task_queue' = QueuePut(task_queue, cur)
    /\ pc' = "get"
    /\ cur' = 0
    /\ UNCHANGED <<functions, tasks, results, inputs, exc, dups, nodes, now, found>>

\* _process_tasks takes the head of the queue, _check_dependencies answers
\* True and the task is marked executing.
PopReady ==
    /\ pc = "get"
    /\ task_queue # <<>>
    /\ LET t == Head(task_queue) IN
        /\ t \in TaskIds
        /\ CheckDependencies(tasks[t].dependencies)
        /\ cur' = t
        /\ tasks' = SetExecuting(tasks, t)
    /\ task_queue' = QueueGet(task_queue)
    /\ pc' = "marked"
    /\ UNCHANGED <<functions, results, inputs, exc, dups, nodes, now, found>>

\* Faulty variant: dispatch needs an active node and raises without one.
DispatchErrorNeedsNode(t) ==
    IF ~\E i \in DOMAIN nodes : nodes[i].active
    THEN "NoCapableNode"
    ELSE IF tasks[t].function_id \notin functions
    THEN "FunctionNotFound"
    ELSE DependencyError(tasks[t].dependencies)

\* What stops _execute_task between marking the task executing and calling
\* the backend: the function document is missing, or _get_dependency_values
\* raises.
DispatchError(t) ==
    IF tasks[t].function_id \notin functions
    THEN "FunctionNotFound"
    ELSE DependencyError(tasks[t].dependencies)

\* The lookups raise: the except clause of _execute_task records the task
\* as failed and raises again.
ResolveRaises ==
    /\ pc = "marked"
    /\ DispatchError(cur) # NoError
    /\ tasks' = SetFailed(tasks, cur, DispatchError(cur))
    /\ exc' = DispatchError(cur)
    /\ pc' = "raised"
    /\ UNCHANGED <<functions, results, task_queue, cur, inputs, dups, nodes, now, found>>

\* Faulty variant: the call is handed to the thread pool and not awaited.
ResolveInputsDetached ==
    /\ pc = "marked"
    /\ DispatchError(cur) = NoError
    /\ pc' = "get"
    /\ cur' = 0
    /\ UNCHANGED <<functions, tasks, results, task_queue, inputs, exc, dups,
                   nodes, now, found>>

\* The lookups succeed: the backend is called with the dependency values.
ResolveInputs ==
    /\ pc = "marked"
    /\ DispatchError(cur) = NoError
    /\ inputs' = GetDependencyValues(tasks[cur].dependencies)
    /\ pc' = "exec"
    /\ UNCHANGED <<functions, tasks, results, task_queue, cur, exc, dups, nodes, now, found>>

\* The result document inserted for task t.
NewResult(t, out) == [task_id |-> t, output |-> out]

\* The backend returns out: results.insert_one.
ExecReturn(out) ==
    /\ pc = "exec"
    /\ results' = Append(results, NewResult(cur, out))
    /\ pc' = "stored"
    /\ UNCHANGED <<functions, tasks, task_queue, cur, inputs, exc, dups, nodes, now, found>>

\* The task is marked completed with the identifier of the inserted result;
\* _execute_task returns.
MarkCompleted ==
    /\ pc = "stored"
    /\ tasks' = SetCompleted(tasks, cur, Len(results))
    /\ pc' = "get"
    /\ cur' = 0
    /\ inputs' = NoInputs
    /\ UNCHANGED <<functions, results, task_queue, exc, dups, nodes, now, found>>

\* The backend raises: the except clause of _execute_task.
ExecRaise ==
    /\ pc = "exec"
    /\ tasks' = SetFailed(tasks, cur, "ExecutionError")
    /\ exc' = "ExecutionError"
    /\ pc' = "raised"
    /\ UNCHANGED <<functions, results, task_queue, cur, inputs, dups, nodes, now, found>>

\* Faulty variant: the handler resets the task for another attempt.
HandleExceptionReset(tk, t, e) ==
    IF t \in DOMAIN tk THEN [tk EXCEPT ![t].status = "pending"] ELSE tk

\* The except clause of _process_tasks: the task is recorded as failed (again).
HandleException(tk, t, e) == SetFailed(tk, t, e)

\* Faulty variant: the exception ends the loop of _process_tasks.
ProcessTasksExceptStops ==
    /\ pc = "raised"
    /\ tasks' = SetFailed(tasks, cur, exc)
    /\ pc' = "stopped"
    /\ UNCHANGED <<functions, results, task_queue, cur, inputs, exc, dups,
                   nodes, now, found>>

ProcessTasksExcept ==
    /\ pc = "raised"
    /\ tasks' = HandleException(tasks, cur, exc)
    /\ pc' = "get"
    /\ cur' = 0
    /\ inputs' = NoInputs
    /\ exc' = NoError
    /\ UNCHANGED <<functions, results, task_queue, dups, nodes, now, found>>

\* The steps of _process_tasks and of the backend it waits for.
Worker ==
    \/ PopNotReady
    \/ Requeue
    \/ PopReady
    \/ ResolveRaises
    \/ ResolveInputs
    \/ \E out \in Outputs : ExecReturn(out)
    \/ MarkCompleted
    \/ ExecRaise
    \/ ProcessTasksExcept

Next ==
    \/ \E D \in DepChoices : SubmitFunction(D)
    \/ Worker

Spec == Init /\ [][Next]_vars

\* The event loop runs a coroutine that is ready, the sleep ends and the
\* backend answers.
FairSpec == Spec /\ WF_vars(Worker)

\* get_task_status(t): the fields of the task document it returns.
GetTaskStatus(t) ==
    [status |-> tasks[t].status, function_id |-> tasks[t].function_id,
     error |-> tasks[t].error]

\* Faulty variant: the result document is looked up by its task_id, with no
\* test of the task's result_id.
GetTaskResultByTaskId(t) ==
    IF t \notin TaskIds \/ {r \in ResultIds : results[r].task_id = t} = {}
    THEN [error |-> "TaskNotCompletedOrResultNotAvailable", output |-> 0]
    ELSE [error |-> "none",
          output |-> results[CHOOSE r \in ResultIds : results[r].task_id = t].output]

\* get_task_result(t): the output it returns, or the error it raises.  It
\* only reads: the task document, then the result document named by the
\* task's result_id.
GetTaskResult(t) ==
    IF t \notin TaskIds \/ tasks[t].result_id = NoResult
    THEN [error |-> "TaskNotCompletedOrResultNotAvailable", output |-> 0]
    ELSE IF tasks[t].result_id \notin ResultIds
    THEN [error |-> "ResultNotFound", output |-> 0]
    ELSE [error |-> NoError, output |-> results[tasks[t].result_id].output]

(***************************************************************************)
(* The node registry: register_node and find_available_node.  Nothing in   *)
(* _execute_task reads self.nodes, so the registry is explored in a        *)
(* specification of its own, NodeSpec.                                     *)
(***************************************************************************)
\* The node document register_node writes for node n.
NewNode(n, C, t) ==
    [node_id |-> n, capabilities |-> C, last_seen |-> t, active |-> TRUE]

\* Indexes of the documents that match {"node_id": n}.
NodeDocs(ns, n) == {i \in DOMAIN ns : ns[i].node_id = n}

\* Faulty variant: a new document is inserted at every call.
InsertNode(ns, n, C, t) == Append(ns, NewNode(n, C, t))

\* nodes.update_one({"node_id": n}, {"$set": {...}}, upsert=True): the first
\* matching document gets the three fields; without a match a document
\* with the filter's node_id and the three fields is inserted.
UpdateOneUpsert(ns, n, C, t) ==
    IF NodeDocs(ns, n) # {}
    THEN LET i == CHOOSE k \in NodeDocs(ns, n) :
                    \A j \in NodeDocs(ns, n) : k <= j
         IN [ns EXCEPT ![i].capabilities = C, ![i].last_seen = t,
                       ![i].active = TRUE]
    ELSE Append(ns, NewNode(n, C, t))

\* register_node(n, C)
RegisterNode(n, C) ==
    /\ Suspended
    /\ nodes' = UpdateOneUpsert(nodes, n, C, now)
    /\ UNCHANGED <<functions, tasks, results, task_queue, pc, cur, inputs,
                   exc, dups, now, found>>

\* The query operator {"capabilities": {"$all": req}}: every element of req
\* is in the array; MongoDB's $all with an empty array matches no document.
AllMatch(caps, req) == req # {} /\ req \subseteq caps

\* Indexes of the documents that match the filter of find_available_node.
Matching(req) ==
    {i \in DOMAIN nodes :
        nodes[i].active /\ AllMatch(nodes[i].capabilities, req)}

\* find_one(..., sort=[("last_seen", -1)]): a matching document with the
\* greatest last_seen (any of them when several have it); its node_id, or
\* None without a match.
FindAnswers(req) ==
    IF Matching(req) = {}
    THEN {None}
    ELSE {nodes[i].node_id : i \in
            {k \in Matching(req) :
                \A j \in Matching(req) : nodes[j].last_seen <= nodes[k].last_seen}}

\* find_available_node(req)
FindAvailableNode(req) ==
    /\ Suspended
    /\ found' \in FindAnswers(req)
    /\ UNCHANGED <<functions, tasks, results, task_queue, pc, cur, inputs,
                   exc, dups, nodes, now>>

\* Time passes.
Tick ==
    /\ now < MaxTime
    /\ now' = now + 1
    /\ UNCHANGED <<functions, tasks, results, task_queue, pc, cur, inputs,
                   exc, dups, nodes, found>>

NextNode ==
    \/ \E n \in NodeIds : \E C \in CapChoices : RegisterNode(n, C)
    \/ \E req \in CapChoices : FindAvailableNode(req)
    \/ Tick

NodeSpec == Init /\ [][NextNode]_vars

\* The steps _process_tasks takes by itself: all of Worker but the answer of
\* the backend, which _execute_in_threadpool awaits with no timeout.
Scheduler ==
    \/ PopNotReady
    \/ Requeue
    \/ PopReady
    \/ ResolveRaises
    \/ ResolveInputs
    \/ MarkCompleted
    \/ ProcessTasksExcept

\* The event loop runs a coroutine that is ready; the backend may never
\* answer.
HangSpec == Spec /\ WF_vars(Scheduler)

\* A caller hands the identifier of a stored task to the scheduler again.
DuplicateDispatch(t) ==
    /\ Suspended
    /\ t \in TaskIds
    /\ dups < MaxDup
    /\ dups' = dups + 1
    /\ task_queue' = QueuePut(task_queue, t)
    /\ UNCHANGED <<functions, tasks, results, pc, cur, inputs, exc, nodes, now, found>>

NextDup ==
    \/ Next
    \/ \E t \in Ids : DuplicateDispatch(t)

DupSpec == Init /\ [][NextDup]_vars

(***************************************************************************)
(* The HTTP submission path of Python/app.py: POST /functions stores the   *)
(* function and a pending task and schedules simulate_p2p_execution for    *)
(* it; GET /tasks/{id} and GET /results/{id} read the two collections.     *)
(* simulate_p2p_execution runs once for every submitted task and is the    *)
(* only writer of its task and of its result, so where it stands is read   *)
(* off the collections: before its update_one while the task is pending,   *)
(* between update_one and insert_one while the task is completed and has   *)
(* no result document, and past its end afterwards.  These tasks never     *)
(* enter the orchestrator's queue; the path is explored in HttpSpec.       *)
(***************************************************************************)
\* The task document inserted by POST /functions.
NewHttpTask(fid) == [function_id |-> fid, status |-> "pending"]

\* The result document inserted by simulate_p2p_execution.
NewHttpResult(t) == [task_id |-> t, output |-> "simulated_execution_success"]

\* Indexes of the documents that match {"task_id": t}.
ResultDocs(t) == {r \in DOMAIN results : results[r].task_id = t}

\* POST /functions
HttpSubmitFunction ==
    /\ Len(tasks) < MaxRequests
    /\ LET id == Len(tasks) + 1 IN
        /\ functions' = functions \cup {id}
        /\ tasks' = Append(tasks, NewHttpTask(id))
    /\ UNCHANGED <<results, task_queue, pc, cur, inputs, exc, dups, nodes,
                   now, found>>

\* simulate_p2p_execution(t), after the sleep: tasks_collection.update_one.
SimulateMarkCompleted(t) ==
    /\ t \in DOMAIN tasks
    /\ tasks[t].status = "pending"
    /\ tasks' = [tasks EXCEPT ![t].status = "completed"]
    /\ UNCHANGED <<functions, results, task_queue, pc, cur, inputs, exc, dups,
                   nodes, now, found>>

\* simulate_p2p_execution(t): results_collection.insert_one.
SimulateStoreResult(t) ==
    /\ t \in DOMAIN tasks
    /\ tasks[t].status = "completed"
    /\ ResultDocs(t) = {}
    /\ results' = Append(results, NewHttpResult(t))
    /\ UNCHANGED <<functions, tasks, task_queue, pc, cur, inputs, exc, dups,
                   nodes, now, found>>

\* GET /tasks/{t}: the status it reports, or the detail of its 404.
HttpGetTaskStatus(t) ==
    IF t \notin DOMAIN tasks THEN "Task not found" ELSE tasks[t].status

\* GET /results/{t}: the output of the first result document of the task,
\* or the detail of its 404.
HttpGetTaskResult(t) ==
    IF t \notin DOMAIN tasks THEN "Task not found"
    ELSE IF ResultDocs(t) = {} THEN "Result not available yet"
    ELSE results[CHOOSE r \in ResultDocs(t) :
                    \A q \in ResultDocs(t) : r <= q].output

NextHttp ==
    \/ HttpSubmitFunction
    \/ \E t \in 1..MaxRequests : SimulateMarkCompleted(t)
    \/ \E t \in 1..MaxRequests : SimulateStoreResult(t)

HttpSpec == Init /\ [][NextHttp]_vars

(***************************************************************************)
(* Properties                                                              *)
(***************************************************************************)
StatusIs(t, s) == t \in TaskIds /\ tasks[t].status = s
Deps(t) == tasks[t].dependencies
ResultsOf(t) == {r \in ResultIds : results[r].task_id = t}

\* C1: a task's status becomes executing only in a step taken when every
\* member of its dependency list is a stored task whose status is completed;
\* an identifier that names no stored task does not count as completed.
C1_ExecutingOnlyWhenDependenciesCompleted ==
    [][\A t \in TaskIds :
        (tasks[t].status # "executing" /\ tasks'[t].status = "executing")
        => \A d \in Deps(t) : StatusIs(d, "completed")]_vars

\* C2: a task one of whose dependencies is failed eventually is failed, and
\* is never executing.
HasFailedDependency(t) ==
    t \in TaskIds /\ \E d \in Deps(t) : StatusIs(d, "failed")

C2_FailedDependencyFailsDependent ==
    \A t \in Ids :
        /\ HasFailedDependency(t) ~> StatusIs(t, "failed")
        /\ [](HasFailedDependency(t) => ~StatusIs(t, "executing"))

\* C3: no task is requeued forever: for every task there is a point after
\* which it is never again waiting to be put back on the queue.
C3_RequeueingEnds ==
    \A t \in Ids : <>[](~(pc = "sleep" /\ cur = t))

\* C4: no task record is ever created that closes a dependency cycle: the
\* store never holds two tasks each of which depends on the other.
C4_NoMutualDependencyStored ==
    \A a \in TaskIds : \A b \in TaskIds :
        a # b => ~(b \in Deps(a) /\ a \in Deps(b))

\* C5: when the worker is done with a task that has a dependency naming no
\* stored task, the task is failed (it is not put back on the queue), and
\* the backend is never running such a task.
HasMissingDependency(t) == \E d \in Deps(t) : d \notin TaskIds

C5_MissingDependencyFailsAtOnce ==
    /\ [][(cur # 0 /\ cur' = 0 /\ HasMissingDependency(cur))
           => tasks'[cur].status = "failed"]_vars
    /\ [](pc = "exec" => ~HasMissingDependency(cur))

\* C6: a task whose status is completed or failed keeps that status in
\* every later step.
C6_TerminalStatusSticky ==
    [][\A t \in TaskIds :
        tasks[t].status \in {"completed", "failed"}
        => tasks'[t].status = tasks[t].status]_vars

\* A completed and a failed task, with the worker back at the empty queue.
C6_Witness ==
    /\ \E t \in TaskIds : StatusIs(t, "completed")
    /\ \E t \in TaskIds : StatusIs(t, "failed")
    /\ pc = "get"
    /\ task_queue = <<>>

\* C7: the results store never holds two records for one task identifier,
\* also when a task identifier is given to _execute_task a second time.
C7_AtMostOneResultPerTask ==
    \A t \in TaskIds : Cardinality(ResultsOf(t)) <= 1

\* C8: while the backend runs a task, the inputs it was given map exactly
\* the task's dependencies, each to the output of the one result record
\* stored for that dependency.
C8_InputsAreDependencyOutputs ==
    pc = "exec" =>
        /\ DOMAIN inputs = Deps(cur)
        /\ \A d \in Deps(cur) :
            /\ ResultsOf(d) # {}
            /\ \A r \in ResultsOf(d) : inputs[d] = results[r].output

\* The backend runs a task with a dependency whose output is MaxOutput.
C8_Witness ==
    /\ pc = "exec"
    /\ \E d \in Deps(cur) : inputs[d] = MaxOutput

\* C9: no identifier is in the queue twice, and the identifier the worker
\* holds is not in the queue.
C9_QueuedAtMostOnce ==
    /\ \A i \in DOMAIN task_queue : \A j \in DOMAIN task_queue :
        task_queue[i] = task_queue[j] => i = j
    /\ cur # 0 => cur \notin Range(task_queue)

\* The worker holds a task it is about to requeue, behind one it requeued.
C9_Witness ==
    /\ pc = "sleep"
    /\ cur = 2
    /\ task_queue = <<1>>
    /\ ~CheckDependencies(Deps(1))

\* C10: a queued task all of whose dependencies are completed is eventually
\* executing.
ReadyInQueue(t) ==
    /\ t \in Range(task_queue)
    /\ t \in TaskIds
    /\ \A d \in Deps(t) : StatusIs(d, "completed")

C10_ReadyTaskEventuallyExecuting ==
    \A t \in Ids : ReadyInQueue(t) ~> StatusIs(t, "executing")

\* The backend runs a task submitted after a task that is not ready and
\* was put back on the queue.
C10_Witness ==
    /\ pc = "exec"
    /\ \E u \in Range(task_queue) :
        u < cur /\ ~CheckDependencies(Deps(u))

\* C11: while the worker waits on the requeue delay or on the backend with
\* one task, a ready task at the head of the queue can be popped and marked
\* executing.
C11_ReadyTaskPoppedDuringWait ==
    (/\ pc \in {"sleep", "exec"}
     /\ task_queue # <<>>
     /\ ReadyInQueue(Head(task_queue)))
    => ENABLED PopReady

\* C12: no task stays executing for ever, also when the backend never
\* answers: an executing task eventually is failed or completed.
C12_ExecutingEnds ==
    \A t \in Ids :
        StatusIs(t, "executing")
        ~> (StatusIs(t, "failed") \/ StatusIs(t, "completed"))

\* C13: the step in which the worker takes a task with an empty dependency
\* list marks it executing, and the worker never holds such a task for
\* requeueing.
C13_EmptyDependenciesExecuteAtFirstPop ==
    /\ [][\A t \in TaskIds :
            (Deps(t) = {} /\ cur # t /\ cur' = t)
            => (tasks'[t].status = "executing" /\ pc' = "marked")]_vars
    /\ [](pc = "sleep" => Deps(cur) # {})

\* A task without dependencies has been popped and marked executing while
\* a task popped before it is back on the queue.
C13_Witness ==
    /\ pc = "marked"
    /\ Deps(cur) = {}
    /\ StatusIs(cur, "executing")
    /\ task_queue # <<>>

\* C14: no result record exists for a task whose status is pending,
\* executing or failed.
C14_ResultOnlyForCompletedTask ==
    \A t \in TaskIds :
        tasks[t].status \in {"pending", "executing", "failed"}
        => ResultsOf(t) = {}

\* C15: the step in which the backend raises takes the task from executing
\* to failed with the backend's error recorded; a failed task is not in the
\* queue and the backend does not run it; and get_task_status of a failed
\* task returns an error description.
C15_BackendErrorFailsTask ==
    /\ [][ExecRaise =>
            /\ tasks[cur].status = "executing"
            /\ tasks'[cur].status = "failed"
            /\ tasks'[cur].error = "ExecutionError"]_vars
    /\ [](\A t \in TaskIds :
            tasks[t].status = "failed" =>
                /\ t \notin Range(task_queue)
                /\ ~(pc \in {"exec", "stored"} /\ cur = t)
                /\ GetTaskStatus(t).status = "failed"
                /\ GetTaskStatus(t).error # NoError)

\* A task failed by the backend, after the worker has gone on to hold
\* another task.
C15_Witness ==
    /\ \E t \in TaskIds :
        /\ GetTaskStatus(t).status = "failed"
        /\ GetTaskStatus(t).error = "ExecutionError"
        /\ cur # t
    /\ cur # 0

\* C16: when the worker takes a task whose status is not pending, the
\* status is left as it is and an error is raised.
C16_IllegalTransitionRejected ==
    [][\A t \in TaskIds :
        (cur # t /\ cur' = t /\ tasks[t].status # "pending")
        => (tasks'[t].status = tasks[t].status /\ pc' = "raised")]_vars

\* C20: a task is created pending, its status is one of pending, executing,
\* completed and failed, it becomes executing only from pending and
\* completed only from executing.
C20_StatusTransitions ==
    /\ [][/\ \A t \in TaskIds' \ TaskIds : tasks'[t].status = "pending"
          /\ \A t \in TaskIds :
              /\ (tasks'[t].status = "executing" /\ tasks[t].status # "executing")
                  => tasks[t].status = "pending"
              /\ (tasks'[t].status = "completed" /\ tasks[t].status # "completed")
                  => tasks[t].status = "executing"]_vars
    /\ [](\A t \in TaskIds :
            tasks[t].status \in {"pending", "executing", "completed", "failed"})

\* One task went pending, executing, completed; the next one is pending.
C20_Witness ==
    /\ StatusIs(1, "completed")
    /\ StatusIs(2, "pending")
    /\ 1 \in Deps(2)

\* C17: find_available_node(req) returns a node only if the node is active
\* and its capabilities include req, then one with the greatest last_seen
\* among such nodes, and returns None exactly when there is no such node.
Covering(req) ==
    {i \in DOMAIN nodes : nodes[i].active /\ req \subseteq nodes[i].capabilities}

C17_FindReturnsMostRecentCapableNode ==
    [][\A req \in CapChoices :
        FindAvailableNode(req) =>
            /\ found' = None <=> Covering(req) = {}
            /\ found' # None =>
                \E i \in Covering(req) :
                    /\ nodes[i].node_id = found'
                    /\ \A j \in Covering(req) :
                        nodes[j].last_seen <= nodes[i].last_seen]_vars

\* C18: after register_node(n, C) there is exactly one document for n, with
\* capabilities C, active, last seen at the time of the call, and the
\* documents of the other nodes are as before; no two documents ever share
\* a node identifier.
C18_RegisterIsUpsert ==
    /\ [][\A n \in NodeIds : \A C \in CapChoices :
            RegisterNode(n, C) =>
                /\ Cardinality(NodeDocs(nodes', n)) = 1
                /\ \A i \in NodeDocs(nodes', n) :
                    /\ nodes'[i].capabilities = C
                    /\ nodes'[i].active
                    /\ nodes'[i].last_seen = now
                /\ \A i \in DOMAIN nodes :
                    nodes[i].node_id # n => nodes'[i] = nodes[i]
                /\ \A i \in DOMAIN nodes' :
                    nodes'[i].node_id # n => i \in DOMAIN nodes]_vars
    /\ [](\A i \in DOMAIN nodes : \A j \in DOMAIN nodes :
            nodes[i].node_id = nodes[j].node_id => i = j)

\* The node registered first was registered again, later than the second
\* node and with a smaller capability list than it had.
C18_Witness ==
    /\ Len(nodes) = 2
    /\ nodes[1].last_seen > nodes[2].last_seen
    /\ nodes[1].capabilities = {}
    /\ nodes[2].capabilities # {}

\* C19: while find_available_node has no node to return for any
\* requirements, a queued task whose dependencies are all completed is not
\* left pending and is not failed for want of a node: it eventually is
\* completed, or failed with the error the backend raised.
NoCapableNode == \A req \in CapChoices : FindAnswers(req) = {None}

C19_LocalExecutionWithoutNode ==
    \A t \in Ids :
        (ReadyInQueue(t) /\ NoCapableNode)
        ~> \/ StatusIs(t, "completed")
           \/ StatusIs(t, "failed") /\ tasks[t].error = "ExecutionError"

\* With no node registered, a task that had a dependency is completed and
\* has its result.
C19_Witness ==
    /\ NoCapableNode
    /\ \E t \in TaskIds :
        /\ Deps(t) # {}
        /\ StatusIs(t, "completed")
        /\ ResultsOf(t) # {}

\* C21: the steps that handle a popped task whose dependencies are not all
\* completed (the pop that finds it not ready, and the requeue after the
\* delay) leave the task documents, the result documents and the function
\* documents as they were; the task is pending; and the requeue puts its
\* identifier at the end of the queue.
C21_RequeueLeavesRecordsUnchanged ==
    [][/\ (pc = "get" /\ pc' = "sleep") =>
            /\ tasks' = tasks /\ results' = results /\ functions' = functions
            /\ tasks[cur'].status = "pending"
            /\ \E d \in Deps(cur') : ~StatusIs(d, "completed")
       /\ (pc = "sleep" /\ pc' = "get") =>
            /\ tasks' = tasks /\ results' = results /\ functions' = functions
            /\ tasks[cur].status = "pending"
            /\ task_queue' = Append(task_queue, cur)]_vars

\* A task that was found not ready is back on the queue, pending, behind
\* nothing, while a task submitted after it is completed with its result.
C21_Witness ==
    /\ pc = "get"
    /\ task_queue = <<1>>
    /\ StatusIs(1, "pending")
    /\ ~CheckDependencies(Deps(1))
    /\ StatusIs(2, "completed")
    /\ ResultsOf(2) # {}

\* C22: in the HTTP path, whenever GET /tasks/{t} reports completed,
\* GET /results/{t} returns the output stored for t.
C22_HttpCompletedHasResult ==
    \A t \in DOMAIN tasks :
        HttpGetTaskStatus(t) = "completed"
        => HttpGetTaskResult(t) = NewHttpResult(t).output

\* C23: every identifier in the queue names a stored task whose status is
\* pending, and so does the identifier held for requeueing.
C23_QueueHoldsOnlyPendingTasks ==
    /\ \A i \in DOMAIN task_queue : StatusIs(task_queue[i], "pending")
    /\ pc = "sleep" => StatusIs(cur, "pending")

\* A task has just been failed while a task that was put back on the queue
\* waits there.
C23_Witness ==
    /\ pc = "raised"
    /\ StatusIs(cur, "failed")
    /\ task_queue # <<>>
    /\ \A i \in DOMAIN task_queue : task_queue[i] < cur

C25_FailureDoesNotStopScheduler ==
    /\ [][(pc = "raised" \/ pc' = "raised") =>
            /\ \A t \in TaskIds \ {cur} : tasks'[t] = tasks[t]
            /\ tasks'[cur].status = "failed"
            /\ results' = results
            /\ task_queue' = task_queue]_vars
    /\ (pc = "raised") ~> (pc = "get" /\ cur = 0)
    /\ \A t \in Ids :
        (pc = "raised" /\ t \in Range(task_queue))
        ~> (cur = t /\ pc \in {"sleep", "marked"})

\* A task was failed for a dependency without a result, and the task
\* submitted after it has been executed since and its result stored.
C25_Witness ==
    /\ StatusIs(1, "failed")
    /\ tasks[1].error = "DependencyNotCompleted"
    /\ pc = "stored"
    /\ cur = 2
    /\ ResultsOf(2) # {}

\* C26: get_task_result(t) returns an output only when t is a stored task
\* whose status is completed, and the output is that of the one result
\* record stored by the execution of t; for an identifier that names no
\* task and for a task that is pending, executing or failed it raises.
C26_ResultReturnedOnlyForCompleted ==
    \A t \in DepIds :
        /\ GetTaskResult(t).error = NoError => StatusIs(t, "completed")
        /\ (t \notin TaskIds
            \/ tasks[t].status \in {"pending", "executing", "failed"})
           => GetTaskResult(t).error # NoError
        /\ GetTaskResult(t).error = NoError =>
            /\ Cardinality(ResultsOf(t)) = 1
            /\ \A r \in ResultsOf(t) : results[r].output = GetTaskResult(t).output

\* Two completed tasks with different outputs, the second task's result
\* stored first; a failed or pending task is excluded by the statuses.
C26_Witness ==
    /\ StatusIs(1, "completed")
    /\ StatusIs(2, "completed")
    /\ results[1].task_id = 2
    /\ GetTaskResult(1).output = 1
    /\ GetTaskResult(2).output = 2
====
